---- MODULE Spec2Model ----
(***************************************************************************)
(* Model of polars_dc_toolbox.py: three helpers attached to the shared     *)
(* pl.DataFrame type (info, null_report, clean_names) and the registrar    *)
(* register_extensions that attaches them.                                  *)
(*                                                                          *)
(* The state is the attribute table of the DataFrame class plus the         *)
(* observable outcome of the last call: its argument, what it wrote to      *)
(* stdout and stderr, what it returned and whether an exception left it.    *)
(* Engine primitives (shape, null_count, estimated_size, ...) are inputs of *)
(* a call: each call draws the table it runs on and the primitive that      *)
(* fails, if any.                                                           *)
(***************************************************************************)
EXTENDS Integers, Sequences, FiniteSets, TLC

VARIABLES
    attrs,             \* pl.DataFrame attribute name -> what is bound to it
    loaded,            \* the module body has run
    op,                \* the function whose outcome the caller is looking at
    self,              \* its argument (a table), or NoTable
    fail,              \* the engine primitive that raised during the call
    stdout,            \* lines the call printed to sys.stdout
    stderr,            \* lines the call printed to sys.stderr
    raised,            \* the exception that left the call, or "none"
    result,            \* the table the call returned, or NoTable
    registered_count,  \* local of register_extensions
    mem_usage,         \* local of _pandas_style_info (-1: never assigned)
    null_percentage,   \* the column with_columns computed in _null_report
    chained            \* how many clean_names calls the argument came out of

vars == <<attrs, loaded, op, self, fail, stdout, stderr, raised, result,
          registered_count, mem_usage, null_percentage, chained>>

-----------------------------------------------------------------------------
(* Bounds of the model *)

MaxRows == 3
MaxCols == 2
MaxNameLen == 1
MaxChain == 2

-----------------------------------------------------------------------------
(* Generic helpers *)

Range(s) == {s[i] : i \in 1..Len(s)}

Distinct(s) == \A i, j \in 1..Len(s) : s[i] = s[j] => i = j

SeqsUpTo(S, n) == UNION {[1..k -> S] : k \in 0..n}

\* Python's None where a table could stand.
NoTable == [kind |-> "None"]

-----------------------------------------------------------------------------
(* Extension Registrar: register_extensions and the import hook *)

\* The three (name, func) pairs, in the order of the list.
extensions ==
    << [name |-> "info",        func |-> "_pandas_style_info"],
       [name |-> "null_report", func |-> "_null_report"],
       [name |-> "clean_names", func |-> "_clean_column_names"] >>

ExtNames == {extensions[i].name : i \in 1..Len(extensions)}

\* hasattr(pl.DataFrame, name)
hasattr(a, name) == a[name] # "absent"

ShouldAttach_always(a, name) == TRUE

\* the guard of the setattr: if not hasattr(pl.DataFrame, name)
ShouldAttach(a, name) == ~hasattr(a, name)

\* The for loop from its i-th pair on, with the class attributes a and the
\* counter as they stand; gives both when the loop ends.
RECURSIVE RegisterLoop(_, _, _)
RegisterLoop(i, a, count) ==
    IF i > Len(extensions)
    THEN [attrs |-> a, registered_count |-> count]
    ELSE IF ShouldAttach(a, extensions[i].name)
         THEN RegisterLoop(i + 1,
                           [a EXCEPT ![extensions[i].name] = extensions[i].func],
                           count + 1)
         ELSE RegisterLoop(i + 1, a, count)

ShouldPrint_ge(count) == count >= 0

\* if registered_count > 0
ShouldPrint(count) == count > 0

ConfirmationLine(count) == [kind |-> "registered", count |-> count]

\* The effect of one call of register_extensions on the state.
RegisterEffect ==
    LET r == RegisterLoop(1, attrs, 0) IN
    /\ attrs' = r.attrs
    /\ registered_count' = r.registered_count
    /\ stdout' = IF ShouldPrint(r.registered_count)
                 THEN <<ConfirmationLine(r.registered_count)>>
                 ELSE <<>>
    /\ op' = "register_extensions"
    /\ self' = NoTable
    /\ fail' = "none"
    /\ stderr' = <<>>
    /\ raised' = "none"
    /\ result' = NoTable
    /\ mem_usage' = -1
    /\ null_percentage' = <<>>
    /\ chained' = 0

\* The module body: as a script (__name__ == "__main__") it defines the
\* functions and stops; on import it calls register_extensions.
ModuleLoad ==
    /\ ~loaded
    /\ loaded' = TRUE
    /\ \E as_main \in BOOLEAN :
         IF as_main
         THEN /\ op' = "__main__"
              /\ UNCHANGED <<attrs, self, fail, stdout, stderr, raised, result,
                             registered_count, mem_usage, null_percentage,
                             chained>>
         ELSE RegisterEffect

\* The caller is between two calls: the module is loaded and the outcome of
\* the previous call has been dropped.
AtCaller == loaded /\ op = "idle"

\* A later explicit call of register_extensions().
Register ==
    /\ AtCaller
    /\ RegisterEffect
    /\ UNCHANGED loaded

-----------------------------------------------------------------------------
(* Tables: the engine's DataFrame as far as the three helpers read it *)

Chars == {"A", "a", " ", "_"}

\* A column name is a string, kept as the tuple of its characters.
Names == SeqsUpTo(Chars, MaxNameLen)

DataFrame(names, dtypes, cols) ==
    [kind |-> "DataFrame", names |-> names, dtypes |-> dtypes, cols |-> cols]

\* self.width, self.height, self.shape
width(t) == Len(t.cols)
height(t) == IF t.cols = <<>> THEN 0 ELSE Len(t.cols[1])
shape(t) == <<height(t), width(t)>>

\* self.null_count().row(0): per column, the number of null cells.
RECURSIVE CountNulls(_)
CountNulls(col) ==
    IF col = <<>> THEN 0
    ELSE (IF Head(col) = "null" THEN 1 ELSE 0) + CountNulls(Tail(col))

null_count(t) == [i \in 1..width(t) |-> CountNulls(t.cols[i])]

\* A column of r cells, k of them null. The helpers read a column's cells
\* only through null_count, so where the nulls stand makes no difference:
\* they are put first.
Column(k, r) == [c \in 1..r |-> IF c <= k THEN "null" ELSE "v"]

\* Tables the two reports are run on: columns "a", "aa", ... of alternating
\* dtype, every number of nulls per column in up to MaxRows rows.
ReportName(i) == [k \in 1..i |-> "a"]
ReportDtype(i) == IF i % 2 = 1 THEN "String" ELSE "Int64"

ReportTable(r, k) ==
    DataFrame([i \in 1..Len(k) |-> ReportName(i)],
              [i \in 1..Len(k) |-> ReportDtype(i)],
              [i \in 1..Len(k) |-> Column(k[i], r)])

\* The null counts k a table of r rows can have, over its up to MaxCols
\* columns (a table without columns has no rows). Whether the engine's
\* primitives accept a table without columns is the engine's affair: a call
\* on one may run through or have a primitive fail, like any other call.
NullCountsOf(r) ==
    UNION {[1..n -> 0..r] : n \in (IF r = 0 THEN 0 ELSE 1)..MaxCols}

-----------------------------------------------------------------------------
(* Table Summary Reporter: _pandas_style_info *)

KiB == 1024
MiB == KiB * KiB

\* What self.estimated_size() may answer: around the unit threshold, and one
\* size whose kilobyte figure falls halfway between two hundredths.
MemSizes == {0, 128, MiB - 1, MiB, MiB + 1, 3 * MiB}

\* f"{num / den:.2f}", as a number of hundredths: the quotient rounded to the
\* nearest hundredth, a tie going to the even one (the quotients here are
\* exact binary fractions, so ties are real ties).
Fixed2(num, den) ==
    LET q == (num * 100) \div den
        r == (num * 100) % den
    IN  IF 2 * r > den THEN q + 1
        ELSE IF 2 * r = den THEN q + (q % 2)
        ELSE q

\* if mem_usage > 1024**2
UseMB(mem) == mem > MiB

\* mem_str
MemStr(mem) ==
    IF UseMB(mem)
    THEN [value |-> Fixed2(mem, MiB), unit |-> "MB"]
    ELSE [value |-> Fixed2(mem, KiB), unit |-> "KB"]

NonNull_nulls(n_rows, nulls) == nulls

\* non_null = n_rows - null_counts[idx]
NonNull(n_rows, nulls) == n_rows - nulls

\* The line the loop prints for the idx-th pair of self.schema.items()
\* (idx counts from 0, as enumerate does).
ColumnLine(t, idx, null_counts) ==
    [kind |-> "column", idx |-> idx, name |-> t.names[idx + 1],
     non_null |-> NonNull(shape(t)[1], null_counts[idx + 1]),
     dtype |-> t.dtypes[idx + 1]]

ColumnLines(t) ==
    LET null_counts == null_count(t)
    IN  [k \in 1..Len(t.names) |-> ColumnLine(t, k - 1, null_counts)]

\* The five lines printed before the try block.
InfoHead(t) ==
    << [kind |-> "class"],
       [kind |-> "RangeIndex", entries |-> shape(t)[1], last |-> shape(t)[1] - 1],
       [kind |-> "Data columns", total |-> shape(t)[2]],
       [kind |-> "header"],
       [kind |-> "rule"] >>

InfoTail(t, mem) ==
    << [kind |-> "dtypes", dtypes |-> Range(t.dtypes)],
       [kind |-> "memory usage", mem_str |-> MemStr(mem)] >>

ErrorLine(what) == [kind |-> what]

\* The primitives _pandas_style_info calls, in the order it calls them.
InfoPrimitives == <<"shape", "null_count", "schema", "estimated_size", "dtypes">>

\* Position of primitive f in the order of calls; past the end for "none".
RECURSIVE IndexOf(_, _)
IndexOf(s, f) ==
    IF s = <<>> \/ Head(s) = f THEN 1 ELSE 1 + IndexOf(Tail(s), f)

\* Whether the call gets as far as (and past) primitive p when f fails.
Passes(order, f, p) == IndexOf(order, f) > IndexOf(order, p)

\* _pandas_style_info(self) where primitive f raises (f = "none": nothing
\* does) and estimated_size() answers mem: what it prints and what leaves it.
pandas_style_info(t, f, mem) ==
    IF ~Passes(InfoPrimitives, f, "shape")
    THEN \* line 30 is outside the try: the exception leaves the function
         [stdout |-> <<>>, stderr |-> <<>>, raised |-> "Exception"]
    ELSE IF ~Passes(InfoPrimitives, f, "schema")
    THEN [stdout |-> InfoHead(t),
          stderr |-> <<ErrorLine("Error generating info report")>>,
          raised |-> "none"]
    ELSE IF ~Passes(InfoPrimitives, f, "estimated_size")
    THEN [stdout |-> InfoHead(t) \o ColumnLines(t) \o <<[kind |-> "rule"]>>,
          stderr |-> <<ErrorLine("Error generating info report")>>,
          raised |-> "none"]
    ELSE IF ~Passes(InfoPrimitives, f, "dtypes")
    THEN [stdout |-> InfoHead(t) \o ColumnLines(t) \o <<[kind |-> "rule"]>>,
          stderr |-> <<ErrorLine("Error generating info report")>>,
          raised |-> "none"]
    ELSE [stdout |-> InfoHead(t) \o ColumnLines(t) \o <<[kind |-> "rule"]>>
                     \o InfoTail(t, mem),
          stderr |-> <<>>,
          raised |-> "none"]

\* df.info() on a table, the attribute being the toolbox's function.
Info ==
    /\ AtCaller
    /\ attrs["info"] = "_pandas_style_info"
    /\ \E r \in 0..MaxRows, f \in Range(InfoPrimitives) \cup {"none"} :
         \E k \in NullCountsOf(r),
            mem \in IF Passes(InfoPrimitives, f, "estimated_size")
                    THEN MemSizes ELSE {-1} :
           LET t == ReportTable(r, k)
               out == pandas_style_info(t, f, mem)
           IN
           /\ op' = "_pandas_style_info"
           /\ self' = t
           /\ fail' = f
           /\ mem_usage' = mem
           /\ stdout' = out.stdout
           /\ stderr' = out.stderr
           /\ raised' = out.raised
    /\ result' = NoTable
    /\ null_percentage' = <<>>
    /\ UNCHANGED <<attrs, loaded, registered_count, chained>>

-----------------------------------------------------------------------------
(* Null Report Generator: _null_report *)

\* A Float64 of the null_percentage column: a number of hundredths, or what
\* a division by zero leaves (0/0 is NaN, n/0 is inf; neither raises).
Num(h) == [kind |-> "num", hundredths |-> h]
NaN == [kind |-> "NaN", hundredths |-> 0]
Inf == [kind |-> "inf", hundredths |-> 0]

\* .round(2) of num / den * 100, in hundredths. A tie needs den to be a
\* multiple of 32, beyond the row counts explored here; it is sent to the
\* even hundredth.
Round2Percent(num, den) == Fixed2(num * 100, den)

\* (pl.col("null_count") / total_rows * 100).round(2)
Percentage(nulls, total_rows) ==
    IF total_rows = 0
    THEN (IF nulls = 0 THEN NaN ELSE Inf)
    ELSE Num(Round2Percent(nulls, total_rows))

\* null_count().transpose(...).rename(...): one row per column of self.
Transposed(t) ==
    [i \in 1..width(t) |->
        [column_name |-> t.names[i], null_count |-> null_count(t)[i]]]

\* .with_columns(... .alias("null_percentage"))
WithPercentage(rows, total_rows) ==
    [i \in 1..Len(rows) |->
        [column_name |-> rows[i].column_name, null_count |-> rows[i].null_count,
         null_percentage |-> Percentage(rows[i].null_count, total_rows)]]

KeepRow_ge(row) == row.null_count >= 0

\* the predicate of .filter(pl.col("null_count") > 0)
KeepRow(row) == row.null_count > 0

Filter(rows) == SelectSeq(rows, KeepRow)

\* The order .sort("null_percentage", descending=True) puts values in: the
\* engine ranks NaN above every number.
SortKey(p) ==
    IF p.kind = "num" THEN p.hundredths ELSE IF p.kind = "inf" THEN 10001 ELSE 10002

RemoveAt(s, i) == [k \in 1..(Len(s) - 1) |-> IF k < i THEN s[k] ELSE s[k + 1]]

\* Every order the sort may return: descending by key, rows of equal key in
\* any order (the sort is not asked to keep the input order).
RECURSIVE SortDescending(_)
SortDescending(rows) ==
    IF rows = <<>> THEN {<<>>}
    ELSE UNION {
           {<<rows[i]>> \o rest : rest \in SortDescending(RemoveAt(rows, i))} :
           i \in {m \in 1..Len(rows) :
                    \A j \in 1..Len(rows) :
                       SortKey(rows[j].null_percentage) <= SortKey(rows[m].null_percentage)}}

\* The primitives _null_report calls, in the order it calls them.
NullPrimitives == <<"height", "null_count", "transpose", "with_columns", "filter", "sort">>

\* What _null_report prints once null_stats is built.
NullReportOutput(total_rows, null_stats) ==
    << [kind |-> "Missing Values Report", total_rows |-> total_rows],
       IF null_stats = <<>>
       THEN [kind |-> "No missing values found"]
       ELSE [kind |-> "table", rows |-> null_stats] >>

\* _null_report(self) where primitive f raises (f = "none": nothing does):
\* the outcomes it may have, one per order the sort may choose.
null_report(t, f) ==
    IF ~Passes(NullPrimitives, f, "height")
    THEN \* line 74 is outside the try: the exception leaves the function
         {[stdout |-> <<>>, stderr |-> <<>>, raised |-> "Exception",
           null_percentage |-> <<>>]}
    ELSE IF ~Passes(NullPrimitives, f, "with_columns")
    THEN {[stdout |-> <<>>,
           stderr |-> <<ErrorLine("Error generating null report")>>,
           raised |-> "none", null_percentage |-> <<>>]}
    ELSE LET total_rows == height(t)
             stats == WithPercentage(Transposed(t), total_rows)
             computed == [i \in 1..Len(stats) |-> stats[i].null_percentage]
         IN  IF ~Passes(NullPrimitives, f, "sort")
             THEN {[stdout |-> <<>>,
                    stderr |-> <<ErrorLine("Error generating null report")>>,
                    raised |-> "none", null_percentage |-> computed]}
             ELSE {[stdout |-> NullReportOutput(total_rows, null_stats),
                    stderr |-> <<>>, raised |-> "none",
                    null_percentage |-> computed] :
                   null_stats \in SortDescending(Filter(stats))}

\* df.null_report() on a table, the attribute being the toolbox's function.
NullReport ==
    /\ AtCaller
    /\ attrs["null_report"] = "_null_report"
    /\ \E r \in 0..MaxRows, f \in Range(NullPrimitives) \cup {"none"} :
         \E k \in NullCountsOf(r) :
         \E out \in null_report(ReportTable(r, k), f) :
           /\ op' = "_null_report"
           /\ self' = ReportTable(r, k)
           /\ fail' = f
           /\ stdout' = out.stdout
           /\ stderr' = out.stderr
           /\ raised' = out.raised
           /\ null_percentage' = out.null_percentage
    /\ result' = NoTable
    /\ mem_usage' = -1
    /\ UNCHANGED <<attrs, loaded, registered_count, chained>>

-----------------------------------------------------------------------------
(* Column Name Normalizer: _clean_column_names *)

ToLowercaseChar_swapcase(c) == IF c = "A" THEN "a" ELSE IF c = "a" THEN "A" ELSE c

\* Lowercasing one character of the alphabet.
ToLowercaseChar(c) == IF c = "A" THEN "a" ELSE c

\* .name.to_lowercase()
to_lowercase(name) == [i \in 1..Len(name) |-> ToLowercaseChar(name[i])]

\* lambda x: x.replace(" ", "_")
replace_spaces(name) == [i \in 1..Len(name) |-> IF name[i] = " " THEN "_" ELSE name[i]]

\* The name expression of line 115, both name operations applied in the
\* order they are chained.
CleanName(name) == replace_spaces(to_lowercase(name))

\* The engine's check on the output names of a select: two equal names are
\* refused (a DataFrame's column names are unique).
DuplicateNames_unchecked(names) == FALSE

DuplicateNames(names) == ~Distinct(names)

ColumnOrder_reversed(t) == [i \in 1..width(t) |-> width(t) + 1 - i]

\* pl.all(): the columns of self, in schema order.
ColumnOrder(t) == [i \in 1..width(t) |-> i]

\* self.select(pl.all().name.to_lowercase().name.map(...)): a new table with
\* the selected columns under their new names, or the engine's exception.
clean_column_names(t) ==
    LET order == ColumnOrder(t)
        names == [i \in 1..Len(order) |-> CleanName(t.names[order[i]])]
    IN  IF DuplicateNames(names)
        THEN [raised |-> "DuplicateError", result |-> NoTable]
        ELSE [raised |-> "none",
              result |-> DataFrame(names,
                                   [i \in 1..Len(order) |-> t.dtypes[order[i]]],
                                   [i \in 1..Len(order) |-> t.cols[order[i]]])]

\* Tables clean_names is run on: every list of up to MaxCols distinct names
\* (a table without columns has no rows), column i holding i - 1 nulls, as
\* far as the rows go.
NameColumn(i, r) == Column(IF i - 1 < r THEN i - 1 ELSE r, r)

NameTable(names, r) ==
    DataFrame(names,
              [i \in 1..Len(names) |-> ReportDtype(i)],
              [i \in 1..Len(names) |-> NameColumn(i, r)])

NameListsOf(r) ==
    UNION {[1..n -> Names] : n \in (IF r = 0 THEN 0 ELSE 1)..MaxCols}

\* One call of _clean_column_names on table t, which came out of n earlier
\* calls of it.
CleanNamesOn(t, n) ==
    LET out == clean_column_names(t) IN
    /\ op' = "_clean_column_names"
    /\ chained' = n
    /\ self' = t
    /\ raised' = out.raised
    /\ result' = out.result
    /\ fail' = "none"
    /\ stdout' = <<>>
    /\ stderr' = <<>>
    /\ mem_usage' = -1
    /\ null_percentage' = <<>>
    /\ UNCHANGED <<attrs, loaded, registered_count>>

\* df.clean_names() on a table, the attribute being the toolbox's function.
\* The table is a fresh one, or the one the previous clean_names returned
\* (df.clean_names().clean_names()).
CleanNames ==
    /\ loaded
    /\ attrs["clean_names"] = "_clean_column_names"
    /\ \/ /\ op = "idle"
          /\ \E r \in 0..MaxRows : \E names \in NameListsOf(r) :
               Distinct(names) /\ CleanNamesOn(NameTable(names, r), 0)
       \/ /\ op = "_clean_column_names"
          /\ result # NoTable
          /\ chained < MaxChain
          /\ CleanNamesOn(result, chained + 1)

-----------------------------------------------------------------------------
(* The process *)

\* Before the module is loaded: the host library may already define any of
\* the three attribute names on pl.DataFrame.
Init ==
    /\ attrs \in [ExtNames -> {"absent", "host"}]
    /\ loaded = FALSE
    /\ op = "start"
    /\ self = NoTable
    /\ fail = "none"
    /\ stdout = <<>>
    /\ stderr = <<>>
    /\ raised = "none"
    /\ result = NoTable
    /\ registered_count = 0
    /\ mem_usage = -1
    /\ null_percentage = <<>>
    /\ chained = 0

\* The call is over for the caller: what it printed and returned is dropped.
Return ==
    /\ loaded
    /\ op # "idle"
    /\ op' = "idle"
    /\ self' = NoTable
    /\ fail' = "none"
    /\ stdout' = <<>>
    /\ stderr' = <<>>
    /\ raised' = "none"
    /\ result' = NoTable
    /\ registered_count' = 0
    /\ mem_usage' = -1
    /\ null_percentage' = <<>>
    /\ chained' = 0
    /\ UNCHANGED <<attrs, loaded>>

Next == ModuleLoad \/ Register \/ Info \/ NullReport \/ CleanNames \/ Return

Spec == Init /\ [][Next]_vars

-----------------------------------------------------------------------------
(* Properties of the registrar *)

ToolboxFuncs == {extensions[i].func : i \in 1..Len(extensions)}

\* C1: a name that is bound on pl.DataFrame before a step is bound to the
\* same thing after it, whether the host library or an earlier call of
\* register_extensions bound it: the registrar only binds absent names.
C1_BoundNamesAreKept ==
    [][\A n \in ExtNames : attrs[n] # "absent" => attrs'[n] = attrs[n]]_vars

\* C1 witness: register_extensions has run on a type where the host library
\* had bound some of the names and not others.
C1_Witness ==
    /\ op = "register_extensions"
    /\ registered_count >= 1
    /\ \E n \in ExtNames : attrs[n] = "host"
    /\ \E n \in ExtNames : attrs[n] \in ToolboxFuncs

\* C2: a call of register_extensions attaches as many names as were absent
\* just before it and prints the confirmation line, carrying that count,
\* exactly when the count is at least 1. On a type with none of the names it
\* attaches 3 and prints; once an earlier call has attached a name, a call
\* attaches 0 and prints nothing.
C2_CountAndConfirmation ==
    [][op' = "register_extensions" =>
          LET absent == {n \in ExtNames : attrs[n] = "absent"} IN
          /\ registered_count' = Cardinality(absent)
          /\ stdout' = IF Cardinality(absent) >= 1
                       THEN <<[kind |-> "registered", count |-> Cardinality(absent)]>>
                       ELSE <<>>
          /\ (absent = ExtNames => registered_count' = 3 /\ Len(stdout') = 1)
          /\ ((\E n \in ExtNames : attrs[n] \in ToolboxFuncs)
                => registered_count' = 0 /\ stdout' = <<>>)
    ]_vars

\* C2 witness: all three names are the toolbox's (a first call on a fresh
\* type attached them) and a later call has attached none and printed
\* nothing.
C2_Witness ==
    /\ op = "register_extensions"
    /\ \A n \in ExtNames : attrs[n] \in ToolboxFuncs
    /\ registered_count = 0
    /\ stdout = <<>>

-----------------------------------------------------------------------------
(* Properties of the two reports *)

\* The number of null cells of column i of table t, counted cell by cell.
NullsIn(t, i) == Cardinality({c \in 1..Len(t.cols[i]) : t.cols[i][c] = "null"})

IsReport == op \in {"_pandas_style_info", "_null_report"}

\* C3: a report never lets an exception out: whichever primitive fails, the
\* call returns normally, having written exactly one line to stderr.
C3_ReportsNeverRaise ==
    IsReport => /\ raised = "none"
                /\ (fail # "none" => Len(stderr) = 1)

\* C4: on a table of N columns and R rows where nothing fails, info prints
\* exactly N column lines, in schema order and numbered 0..N-1, the line of
\* column i carrying R minus the null count of column i.
C4_ColumnLines ==
    (op = "_pandas_style_info" /\ fail = "none") =>
        LET IsColumnLine(l) == l.kind = "column"
            lines == SelectSeq(stdout, IsColumnLine)
            N == Len(self.names)
            R == height(self)
        IN  /\ Len(lines) = N
            /\ \A i \in 1..N :
                 /\ stdout[5 + i] = lines[i]
                 /\ lines[i].idx = i - 1
                 /\ lines[i].name = self.names[i]
                 /\ lines[i].non_null = R - NullsIn(self, i)

\* C4 witness: info has run without failure on a 3-row table whose two
\* columns have different, non-zero null counts.
C4_Witness ==
    /\ op = "_pandas_style_info"
    /\ fail = "none"
    /\ height(self) = 3
    /\ width(self) = 2
    /\ NullsIn(self, 1) = 1
    /\ NullsIn(self, 2) = 2

\* The rows null_report printed as a table (none when it printed the
\* no-missing-values message).
Listed == IF Len(stdout) = 2 /\ stdout[2].kind = "table" THEN stdout[2].rows ELSE <<>>

\* C5: where nothing fails, null_report prints the header and then lists
\* exactly the columns with a null count above 0, each once, with its null
\* count and with null_count / row_count * 100 rounded to the nearest
\* hundredth, the percentages never increasing down the list; with no such
\* column it prints the no-missing-values message and no table.
C5_NullReportRows ==
    (op = "_null_report" /\ fail = "none") =>
        LET R == height(self)
            withNulls == {i \in 1..width(self) : NullsIn(self, i) > 0}
        IN  /\ Len(stdout) = 2
            /\ stdout[1] = [kind |-> "Missing Values Report", total_rows |-> R]
            /\ Len(Listed) = Cardinality(withNulls)
            /\ \A i \in withNulls : \E j \in 1..Len(Listed) :
                 /\ Listed[j].column_name = self.names[i]
                 /\ Listed[j].null_count = NullsIn(self, i)
                 /\ Listed[j].null_percentage.kind = "num"
                 /\ LET h == Listed[j].null_percentage.hundredths
                        d == h * R - NullsIn(self, i) * 10000
                    IN  2 * d <= R /\ -2 * d <= R
            /\ \A j \in 1..(Len(Listed) - 1) :
                 Listed[j].null_percentage.hundredths
                     >= Listed[j + 1].null_percentage.hundredths
            /\ (withNulls = {} <=> stdout[2] = [kind |-> "No missing values found"])

\* C5 witness: the 3-row, 2-column table with one null in the first column
\* and two in the second: the second column is listed first, at 66.67, then
\* the first at 33.33.
C5_Witness ==
    /\ op = "_null_report"
    /\ fail = "none"
    /\ Len(Listed) = 2
    /\ Listed[1].column_name = self.names[2]
    /\ Listed[1].null_percentage = Num(6667)
    /\ Listed[2].column_name = self.names[1]
    /\ Listed[2].null_percentage = Num(3333)

\* C8: info gives the memory usage in KB (bytes / 1024) below 1024 * 1024
\* bytes and in MB (bytes / (1024 * 1024)) from 1024 * 1024 bytes on.
C8_MemoryUnit ==
    (op = "_pandas_style_info" /\ fail = "none") =>
        LET m == stdout[Len(stdout)].mem_str IN
        /\ (mem_usage < 1024 * 1024 =>
                m.unit = "KB" /\ m.value = Fixed2(mem_usage, 1024))
        /\ (mem_usage >= 1024 * 1024 =>
                m.unit = "MB" /\ m.value = Fixed2(mem_usage, 1024 * 1024))

\* C9: on a table without rows null_report takes every percentage to be 0
\* and divides nothing by zero; it raises nothing and prints the header with
\* 0 rows and the no-missing-values message.
C9_ZeroRows ==
    (op = "_null_report" /\ fail = "none" /\ height(self) = 0) =>
        /\ \A i \in 1..Len(null_percentage) : null_percentage[i] = Num(0)
        /\ raised = "none"
        /\ stdout = << [kind |-> "Missing Values Report", total_rows |-> 0],
                       [kind |-> "No missing values found"] >>

-----------------------------------------------------------------------------
(* Properties of clean_names *)

IsCleaned == op = "_clean_column_names" /\ raised = "none"

\* C6: clean_names applied to a table that clean_names returned succeeds and
\* gives the same list of column names again.
C6_Idempotent ==
    (op = "_clean_column_names" /\ chained >= 1) =>
        /\ raised = "none"
        /\ result.names = self.names

\* C6 witness: clean_names has run on its own result, a table with columns
\* named "a" and "_".
C6_Witness ==
    /\ IsCleaned
    /\ chained = 1
    /\ self.names = << <<"a">>, <<"_">> >>
    /\ result.names = self.names

\* What the transform makes of one character.
Cleaned(c) == IF c = "A" THEN "a" ELSE IF c = " " THEN "_" ELSE c

\* C7: the table clean_names returns has the rows, the columns, the column
\* order, the dtypes and the cells of its argument, column i under the
\* transformed name of column i; and the argument is, after the call, the
\* table it was before (here: the table the previous call had returned).
C7_OnlyNamesChange ==
    [][(op' = "_clean_column_names" /\ raised' = "none") =>
          /\ result'.kind = "DataFrame"
          /\ height(result') = height(self')
          /\ width(result') = width(self')
          /\ Len(result'.names) = Len(self'.names)
          /\ \A i \in 1..width(self') :
               /\ result'.cols[i] = self'.cols[i]
               /\ result'.dtypes[i] = self'.dtypes[i]
               /\ Len(result'.names[i]) = Len(self'.names[i])
               /\ \A k \in 1..Len(self'.names[i]) :
                    result'.names[i][k] = Cleaned(self'.names[i][k])
          /\ (op = "_clean_column_names" => self' = result)
    ]_vars

\* C7 witness: clean_names has returned a table for a 2-column, 3-row
\* argument whose columns differ in their cells and whose names it changed.
C7_Witness ==
    /\ IsCleaned
    /\ width(self) = 2
    /\ height(self) = 3
    /\ self.cols[1] # self.cols[2]
    /\ self.names = << <<"A">>, <<" ">> >>
    /\ result.names = << <<"a">>, <<"_">> >>

====
